---- MODULE Spec2Model ----
(***************************************************************************)
(* Model of src/notificationService.cpp: MessageFormatter, the INotifier   *)
(* variants EmailNotifier and SMSNotifier, ConsoleLogger,                  *)
(* NotificationService and main.                                           *)
(*                                                                         *)
(* Text is a TLA+ string; std::cout is the string of all characters        *)
(* written so far, so that one std::endl is one "\n" and the number of     *)
(* console lines is the number of "\n" in it.  Heap objects are addresses  *)
(* 1, 2, ...; an empty std::unique_ptr holds NULL.                         *)
(***************************************************************************)
EXTENDS Integers, Sequences, FiniteSets, TLC

VARIABLES
    call,       \* the (recipient, content) literals of main's two calls
    pc,         \* main's position (the source line about to run)
    locals,     \* main's unique_ptr handles: emailNotifier, consoleLogger, smsNotifier
    services,   \* main's NotificationService objects: service, service2
    heap,       \* live heap objects: address -> dynamic type
    freed,      \* addresses already deleted
    out,        \* everything written to std::cout
    frame,      \* the activation of sendNotification, or NoFrame
    exitCode,   \* main's return value, NoExit until it returns
    completed,  \* history: number of sendNotification calls that returned
    moved,      \* history: handles main has moved from
    usedAfterMove, \* history: a moved-from handle was read again
    last        \* history: the last direct call of the unit driver

vars == <<call, pc, locals, services, heap, freed, out, frame, exitCode,
          completed, moved, usedAfterMove, last>>

-----------------------------------------------------------------------------
(* Bounds of the model *)

NumRecipients == 5
NumContents == 5

(* Direct calls made by the unit driver *)
MaxCalls == 2

RecipientPool == <<"John", "Alice", "", "Dear, Bob", "A\nB", "Eve", "Z">>
ContentPool == <<"Your order has been shipped!", "Your appointment is confirmed!",
                 "", "Dear, you", "x\ny", "ok", "!">>

Recipients == {RecipientPool[i] : i \in 1..NumRecipients}
Contents == {ContentPool[i] : i \in 1..NumContents}

(* The message and info texts of the unit driver's direct calls *)
Texts == Recipients \cup Contents

(* The literals of main, lines 146 and 151 *)
MainCalls == <<[recipient |-> "John", content |-> "Your order has been shipped!"],
               [recipient |-> "Alice", content |-> "Your appointment is confirmed!"]>>

-----------------------------------------------------------------------------
(* Text *)

Endl == "\n"

(* The positions of the line breaks of s *)
Breaks(s) == {i \in 1..Len(s) : SubSeq(s, i, i) = Endl}

(* Number of line breaks in s *)
CountEndl(s) == Cardinality(Breaks(s))

(* The k-th line break of s, and 0 for k = 0 *)
Break(s, k) ==
    IF k = 0 THEN 0
    ELSE CHOOSE i \in Breaks(s) : Cardinality({j \in Breaks(s) : j <= i}) = k

(* The complete (Endl-terminated) lines of s, in order, as a console shows
   them *)
Lines(s) == [k \in 1..CountEndl(s) |-> SubSeq(s, Break(s, k - 1) + 1, Break(s, k) - 1)]

(* What was written after the first n characters of s *)
Written(s, n) == SubSeq(s, n + 1, Len(s))

-----------------------------------------------------------------------------
(* The classes *)

(* An empty std::unique_ptr *)
NULL == 0

(* main has not returned yet *)
NoExit == -1

(* The exit status of a process killed for undefined behaviour (128 + SIGSEGV) *)
Crashed == 128 + 11

(* Mutant: the separator lacks its space *)
formatMessage_NoSpace(recipient, content) == "Dear " \o recipient \o "," \o content

(* MessageFormatter::formatMessage, lines 43-46 *)
formatMessage(recipient, content) == "Dear " \o recipient \o ", " \o content

(* Mutant: the label lacks its trailing space *)
EmailNotifier_send_NoSpace(message) == "Sending Email:" \o message \o Endl

(* EmailNotifier::send, lines 65-68: the characters inserted into std::cout *)
EmailNotifier_send(message) == "Sending Email: " \o message \o Endl

(* Mutant: the label copied from EmailNotifier *)
SMSNotifier_send_EmailLabel(message) == "Sending Email: " \o message \o Endl

(* SMSNotifier::send, lines 75-78 *)
SMSNotifier_send(message) == "Sending SMS: " \o message \o Endl

(* Mutant: std::endl forgotten *)
ConsoleLogger_log_NoEndl(info) == "Logging: " \o info

(* ConsoleLogger::log, lines 106-109 *)
ConsoleLogger_log(info) == "Logging: " \o info \o Endl

NotifierTypes == {"EmailNotifier", "SMSNotifier"}
LoggerTypes == {"ConsoleLogger"}

(* Mutant: no dynamic dispatch, every notifier sends as an EmailNotifier *)
send_NotVirtual(type, message) == "Sending Email: " \o message \o Endl

(* INotifier::send, line 57: virtual dispatch on the dynamic type *)
send(type, message) ==
    CASE type = "EmailNotifier" -> EmailNotifier_send(message)
      [] type = "SMSNotifier" -> SMSNotifier_send(message)

(* ILogger::log, line 99: virtual dispatch on the dynamic type *)
log(type, info) ==
    CASE type = "ConsoleLogger" -> ConsoleLogger_log(info)

(* notifyUser, lines 86-89 *)
notifyUser(type, message) == send(type, message)

-----------------------------------------------------------------------------
(* Heap and ownership *)

Handles == {"emailNotifier", "consoleLogger", "smsNotifier"}
ServiceNames == {"service", "service2"}

(* A NotificationService not (or no longer) in scope *)
NoService == [live |-> FALSE, notifier |-> NULL, logger |-> NULL]

NoFrame == [self |-> "none", recipient |-> "", content |-> "", message |-> "",
            ip |-> "none", out0 |-> 0]

NoCall == [op |-> "none", type |-> "none", arg1 |-> "", arg2 |-> "",
           ret |-> "", out0 |-> 0]

(* std::make_unique, lines 142, 143, 149, 150: the address of a new object,
   distinct from every object alive or deleted so far *)
make_unique(h, f) ==
    LET used == DOMAIN h \cup f
        free == (1..(Cardinality(used) + 1)) \ used
    IN CHOOSE a \in free : \A b \in free : a <= b

(* The heap with object a of dynamic type t added *)
Alloc(h, a, t) == [x \in DOMAIN h \cup {a} |-> IF x = a THEN t ELSE h[x]]

(* The heap after ~unique_ptr of a pointer holding a: delete a unless empty *)
Delete(h, a) == [x \in DOMAIN h \ {a} |-> h[x]]

(* A pointer that may be dereferenced: not empty and its object is alive *)
Valid(a) == a # NULL /\ a \in DOMAIN heap

-----------------------------------------------------------------------------
(* NotificationService *)

(* NotificationService::NotificationService, lines 125-126: both members
   take over the pointers passed in *)
NotificationService(n, l) == [live |-> TRUE, notifier |-> n, logger |-> l]

(* Mutant: the pointers are copied, the handles keep them *)
MovedFrom_Copies(ls, hs) == ls

(* The locals after std::move(h) initialised a constructor parameter *)
MovedFrom(ls, hs) == [h \in DOMAIN ls |-> IF h \in hs THEN NULL ELSE ls[h]]

(* Entry of sendNotification, line 128, of service self *)
Enter(self, recipient, content) ==
    [self |-> self, recipient |-> recipient, content |-> content,
     message |-> "", ip |-> "L131", out0 |-> Len(out)]

(* Line 131: message = formatter.formatMessage(recipient, content) *)
FormatStep ==
    /\ frame.ip = "L131"
    /\ frame' = [frame EXCEPT !.message = formatMessage(frame.recipient, frame.content),
                              !.ip = "L133"]
    /\ UNCHANGED <<call, pc, locals, services, heap, freed, out, exitCode,
                   completed, moved, usedAfterMove, last>>

(* Line 133: notifier->send(message).  Dereferencing an empty or dangling
   pointer is undefined: the process is killed, or runs on writing nothing. *)
SendStep ==
    /\ frame.ip = "L133"
    /\ LET p == services[frame.self].notifier IN
       IF Valid(p) /\ heap[p] \in NotifierTypes
       THEN /\ out' = out \o send(heap[p], frame.message)
            /\ frame' = [frame EXCEPT !.ip = "L135"]
            /\ UNCHANGED <<pc, exitCode>>
       ELSE \E killed \in BOOLEAN :
            /\ out' = out
            /\ frame' = [frame EXCEPT !.ip = IF killed THEN "none" ELSE "L135"]
            /\ pc' = IF killed THEN "crashed" ELSE pc
            /\ exitCode' = IF killed THEN Crashed ELSE exitCode
    /\ UNCHANGED <<call, locals, services, heap, freed, completed, moved,
                   usedAfterMove, last>>

(* Mutant: the content is logged in place of the recipient *)
LogStep_LogsContent ==
    /\ frame.ip = "L135"
    /\ out' = out \o "Logging: Notification sent to " \o frame.content \o Endl
    /\ frame' = [frame EXCEPT !.ip = "L136"]
    /\ UNCHANGED <<call, pc, locals, services, heap, freed, exitCode, completed,
                   moved, usedAfterMove, last>>

(* Line 135: logger->log("Notification sent to " + recipient) *)
LogStep ==
    /\ frame.ip = "L135"
    /\ LET p == services[frame.self].logger IN
       IF Valid(p) /\ heap[p] \in LoggerTypes
       THEN /\ out' = out \o log(heap[p], "Notification sent to " \o frame.recipient)
            /\ frame' = [frame EXCEPT !.ip = "L136"]
            /\ UNCHANGED <<pc, exitCode>>
       ELSE \E killed \in BOOLEAN :
            /\ out' = out
            /\ frame' = [frame EXCEPT !.ip = IF killed THEN "none" ELSE "L136"]
            /\ pc' = IF killed THEN "crashed" ELSE pc
            /\ exitCode' = IF killed THEN Crashed ELSE exitCode
    /\ UNCHANGED <<call, locals, services, heap, freed, completed, moved,
                   usedAfterMove, last>>

(* The statement of main that follows the call at line l *)
AfterCall(l) == IF l = "L146.call" THEN "L149" ELSE "L153"

(* Line 136: sendNotification returns to main *)
ReturnStep ==
    /\ frame.ip = "L136"
    /\ frame' = [frame EXCEPT !.ip = "returned"]
    /\ pc' = AfterCall(pc)
    /\ completed' = completed + 1
    /\ UNCHANGED <<call, locals, services, heap, freed, out, exitCode, moved,
                   usedAfterMove, last>>

-----------------------------------------------------------------------------
(* main, lines 139-154 *)

(* Line 142: auto emailNotifier = std::make_unique<EmailNotifier>() *)
MakeEmailNotifier ==
    /\ pc = "L142"
    /\ LET a == make_unique(heap, freed) IN
       /\ heap' = Alloc(heap, a, "EmailNotifier")
       /\ locals' = [locals EXCEPT !.emailNotifier = a]
    /\ pc' = "L143"
    /\ UNCHANGED <<call, services, freed, out, frame, exitCode, completed, moved,
                   usedAfterMove, last>>

(* Line 143: auto consoleLogger = std::make_unique<ConsoleLogger>() *)
MakeConsoleLogger ==
    /\ pc = "L143"
    /\ LET a == make_unique(heap, freed) IN
       /\ heap' = Alloc(heap, a, "ConsoleLogger")
       /\ locals' = [locals EXCEPT !.consoleLogger = a]
    /\ pc' = "L145"
    /\ UNCHANGED <<call, services, freed, out, frame, exitCode, completed, moved,
                   usedAfterMove, last>>

(* Line 145: NotificationService service(std::move(emailNotifier),
   std::move(consoleLogger)) *)
ConstructService ==
    /\ pc = "L145"
    /\ services' = [services EXCEPT
           !.service = NotificationService(locals.emailNotifier, locals.consoleLogger)]
    /\ locals' = MovedFrom(locals, {"emailNotifier", "consoleLogger"})
    /\ usedAfterMove' = (usedAfterMove \/ {"emailNotifier", "consoleLogger"} \cap moved # {})
    /\ moved' = moved \cup {"emailNotifier", "consoleLogger"}
    /\ pc' = "L146"
    /\ UNCHANGED <<call, heap, freed, out, frame, exitCode, completed, last>>

(* Line 146: service.sendNotification(...) is entered *)
CallService ==
    /\ pc = "L146"
    /\ frame' = Enter("service", call[1].recipient, call[1].content)
    /\ pc' = "L146.call"
    /\ UNCHANGED <<call, locals, services, heap, freed, out, exitCode, completed,
                   moved, usedAfterMove, last>>

(* Line 149: auto smsNotifier = std::make_unique<SMSNotifier>() *)
MakeSMSNotifier ==
    /\ pc = "L149"
    /\ LET a == make_unique(heap, freed) IN
       /\ heap' = Alloc(heap, a, "SMSNotifier")
       /\ locals' = [locals EXCEPT !.smsNotifier = a]
    /\ pc' = "L150"
    /\ UNCHANGED <<call, services, freed, out, frame, exitCode, completed, moved,
                   usedAfterMove, last>>

(* Mutant: emailNotifier, already moved from, is passed again *)
ConstructService2_MovesEmailNotifier ==
    /\ pc = "L150"
    /\ services' = [services EXCEPT
           !.service2 = [live |-> TRUE, notifier |-> locals.emailNotifier,
                         logger |-> make_unique(heap, freed)]]
    /\ heap' = [x \in DOMAIN heap \cup {make_unique(heap, freed)} |->
                   IF x \in DOMAIN heap THEN heap[x] ELSE "ConsoleLogger"]
    /\ locals' = [locals EXCEPT !.emailNotifier = NULL]
    /\ usedAfterMove' = (usedAfterMove \/ "emailNotifier" \in moved)
    /\ moved' = moved \cup {"emailNotifier"}
    /\ pc' = "L151"
    /\ UNCHANGED <<call, freed, out, frame, exitCode, completed, last>>

(* Mutant: service2 is given the logger object service already holds *)
ConstructService2_SharesLogger ==
    /\ pc = "L150"
    /\ services' = [services EXCEPT
           !.service2 = [live |-> TRUE, notifier |-> locals.smsNotifier,
                         logger |-> services.service.logger]]
    /\ locals' = [locals EXCEPT !.smsNotifier = NULL]
    /\ usedAfterMove' = (usedAfterMove \/ "smsNotifier" \in moved)
    /\ moved' = moved \cup {"smsNotifier"}
    /\ pc' = "L151"
    /\ UNCHANGED <<call, heap, freed, out, frame, exitCode, completed, last>>

(* Line 150: NotificationService service2(std::move(smsNotifier),
   std::make_unique<ConsoleLogger>()) *)
ConstructService2 ==
    /\ pc = "L150"
    /\ LET a == make_unique(heap, freed) IN
       /\ heap' = Alloc(heap, a, "ConsoleLogger")
       /\ services' = [services EXCEPT
              !.service2 = NotificationService(locals.smsNotifier, a)]
    /\ locals' = MovedFrom(locals, {"smsNotifier"})
    /\ usedAfterMove' = (usedAfterMove \/ "smsNotifier" \in moved)
    /\ moved' = moved \cup {"smsNotifier"}
    /\ pc' = "L151"
    /\ UNCHANGED <<call, freed, out, frame, exitCode, completed, last>>

(* Line 151: service2.sendNotification(...) is entered *)
CallService2 ==
    /\ pc = "L151"
    /\ frame' = Enter("service2", call[2].recipient, call[2].content)
    /\ pc' = "L151.call"
    /\ UNCHANGED <<call, locals, services, heap, freed, out, exitCode, completed,
                   moved, usedAfterMove, last>>

(* Mutant: main returns 1 *)
ReturnZero_ReturnsOne ==
    /\ pc = "L153"
    /\ exitCode' = 1
    /\ pc' = "~service2"
    /\ UNCHANGED <<call, locals, services, heap, freed, out, frame, completed,
                   moved, usedAfterMove, last>>

(* Line 153: return 0; the locals are then destroyed in reverse order of
   declaration *)
ReturnZero ==
    /\ pc = "L153"
    /\ exitCode' = 0
    /\ pc' = "~service2"
    /\ UNCHANGED <<call, locals, services, heap, freed, out, frame, completed,
                   moved, usedAfterMove, last>>

(* The non-empty pointers among ps *)
Held(ps) == ps \ {NULL}

(* ~NotificationService of service s (implicit, class at lines 117-137):
   ~unique_ptr of logger, then of notifier.  Deleting an object twice is
   undefined: the process is killed, or runs on. *)
DestroyService(s, next) ==
    /\ pc = "~" \o s
    /\ LET ps == Held({services[s].notifier, services[s].logger}) IN
       /\ heap' = Delete(Delete(heap, services[s].logger), services[s].notifier)
       /\ freed' = freed \cup ps
       /\ IF ps \subseteq DOMAIN heap
          THEN pc' = next /\ exitCode' = exitCode
          ELSE \E killed \in BOOLEAN :
               /\ pc' = IF killed THEN "crashed" ELSE next
               /\ exitCode' = IF killed THEN Crashed ELSE exitCode
    /\ services' = [services EXCEPT ![s] = NoService]
    /\ UNCHANGED <<call, locals, out, frame, completed, moved, usedAfterMove, last>>

(* ~unique_ptr of the local handle h at the end of main *)
DestroyHandle(h, next) ==
    /\ pc = "~" \o h
    /\ LET ps == Held({locals[h]}) IN
       /\ heap' = Delete(heap, locals[h])
       /\ freed' = freed \cup ps
       /\ IF ps \subseteq DOMAIN heap
          THEN pc' = next /\ exitCode' = exitCode
          ELSE \E killed \in BOOLEAN :
               /\ pc' = IF killed THEN "crashed" ELSE next
               /\ exitCode' = IF killed THEN Crashed ELSE exitCode
    /\ locals' = [locals EXCEPT ![h] = NULL]
    /\ UNCHANGED <<call, services, out, frame, completed, moved, usedAfterMove, last>>

DestroyService2 == DestroyService("service2", "~smsNotifier")
DestroySmsNotifier == DestroyHandle("smsNotifier", "~service")
DestroyService1 == DestroyService("service", "~consoleLogger")
DestroyConsoleLogger == DestroyHandle("consoleLogger", "~emailNotifier")
DestroyEmailNotifier == DestroyHandle("emailNotifier", "done")

(* The state when main is entered; the literals of the two calls are drawn
   from the bounded sets, MainCalls among them *)
Init ==
    /\ call \in [1..2 -> [recipient : Recipients, content : Contents]]
    /\ pc = "L142"
    /\ locals = [h \in Handles |-> NULL]
    /\ services = [s \in ServiceNames |-> NoService]
    /\ heap = <<>>
    /\ freed = {}
    /\ out = ""
    /\ frame = NoFrame
    /\ exitCode = NoExit
    /\ completed = 0
    /\ moved = {}
    /\ usedAfterMove = FALSE
    /\ last = NoCall

Next ==
    \/ MakeEmailNotifier
    \/ MakeConsoleLogger
    \/ ConstructService
    \/ CallService
    \/ FormatStep
    \/ SendStep
    \/ LogStep
    \/ ReturnStep
    \/ MakeSMSNotifier
    \/ ConstructService2
    \/ CallService2
    \/ ReturnZero
    \/ DestroyService2
    \/ DestroySmsNotifier
    \/ DestroyService1
    \/ DestroyConsoleLogger
    \/ DestroyEmailNotifier

Spec == Init /\ [][Next]_vars

(* main runs to completion: a statement that can run does run *)
FairSpec == Spec /\ WF_vars(Next)

-----------------------------------------------------------------------------
(* The unit driver: direct calls of the public operations, lines 43, 65, 75,
   86 and 106, on one object of each class, with arguments from the bounded
   sets *)

UnitHeap == Alloc(Alloc(Alloc(<<>>, 1, "EmailNotifier"), 2, "SMSNotifier"),
                  3, "ConsoleLogger")

(* The record of a direct call that has returned *)
Called(op, type, arg1, arg2, ret) ==
    [op |-> op, type |-> type, arg1 |-> arg1, arg2 |-> arg2, ret |-> ret,
     out0 |-> Len(out)]

UnitFrame == UNCHANGED <<call, pc, locals, services, heap, freed, frame, exitCode,
                         moved, usedAfterMove>>

(* formatter.formatMessage(recipient, content) *)
UnitFormatMessage ==
    /\ completed < MaxCalls
    /\ \E recipient \in Recipients, content \in Contents :
       last' = Called("formatMessage", "MessageFormatter", recipient, content,
                      formatMessage(recipient, content))
    /\ out' = out
    /\ completed' = completed + 1
    /\ UnitFrame

(* notifier.send(message) on an EmailNotifier or an SMSNotifier *)
UnitSend ==
    /\ completed < MaxCalls
    /\ \E a \in DOMAIN heap, message \in Texts :
       /\ heap[a] \in NotifierTypes
       /\ out' = out \o send(heap[a], message)
       /\ last' = Called("send", heap[a], message, "", "")
    /\ completed' = completed + 1
    /\ UnitFrame

(* notifyUser(notifier, message) *)
UnitNotifyUser ==
    /\ completed < MaxCalls
    /\ \E a \in DOMAIN heap, message \in Texts :
       /\ heap[a] \in NotifierTypes
       /\ out' = out \o notifyUser(heap[a], message)
       /\ last' = Called("notifyUser", heap[a], message, "", "")
    /\ completed' = completed + 1
    /\ UnitFrame

(* logger.log(info) on a ConsoleLogger *)
UnitLog ==
    /\ completed < MaxCalls
    /\ \E a \in DOMAIN heap, info \in Texts :
       /\ heap[a] \in LoggerTypes
       /\ out' = out \o log(heap[a], info)
       /\ last' = Called("log", heap[a], info, "", "")
    /\ completed' = completed + 1
    /\ UnitFrame

UnitInit ==
    /\ call = MainCalls
    /\ pc = "unit"
    /\ locals = [h \in Handles |-> NULL]
    /\ services = [s \in ServiceNames |-> NoService]
    /\ heap = UnitHeap
    /\ freed = {}
    /\ out = ""
    /\ frame = NoFrame
    /\ exitCode = NoExit
    /\ completed = 0
    /\ moved = {}
    /\ usedAfterMove = FALSE
    /\ last = NoCall

UnitNext ==
    \/ UnitFormatMessage
    \/ UnitSend
    \/ UnitNotifyUser
    \/ UnitLog

UnitSpec == UnitInit /\ [][UnitNext]_vars

-----------------------------------------------------------------------------
(* What the claims speak of *)

(* s holds no line break *)
NoEndl(s) == CountEndl(s) = 0

(* The fixed label of each notifier variant *)
Label(type) ==
    CASE type = "EmailNotifier" -> "Sending Email: "
      [] type = "SMSNotifier" -> "Sending SMS: "

(* The notifier variant main injects into each service, lines 142 and 149 *)
Injected(self) == IF self = "service" THEN "EmailNotifier" ELSE "SMSNotifier"

(* The dispatch text and the log text a call sendNotification(r, c) is to
   write *)
Dispatch(type, r, c) == Label(type) \o "Dear " \o r \o ", " \o c
LogLine(r) == "Logging: Notification sent to " \o r

(* What the running call of sendNotification has written so far *)
CallOutput == Written(out, frame.out0)

(* What the last direct call of the unit driver wrote *)
LastOutput == Written(out, last.out0)

-----------------------------------------------------------------------------
(* C1 as stated: when sendNotification(r, c) is about to return it has
   written exactly two lines, the notifier's dispatch of "Dear r, c" and
   then the logger's "Logging: Notification sent to r". *)
C1_AsStated ==
    frame.ip = "L136" =>
        Lines(CallOutput) = <<Dispatch(Injected(frame.self), frame.recipient, frame.content),
                              LogLine(frame.recipient)>>

(* C1 amended: sendNotification(r, c) writes nothing before line 133, then the
   dispatch text and a line break, then the log text and a line break, and
   nothing else; these are exactly two lines, dispatch first, whenever r and
   c hold no line break. *)
C1_TwoLinesInOrder ==
    LET d == Dispatch(Injected(frame.self), frame.recipient, frame.content)
        l == LogLine(frame.recipient)
    IN /\ frame.ip \in {"L131", "L133"} => CallOutput = ""
       /\ frame.ip = "L135" => CallOutput = d \o Endl
       /\ frame.ip = "L136" => CallOutput = d \o Endl \o l \o Endl
       /\ (frame.ip = "L135" /\ NoEndl(frame.recipient) /\ NoEndl(frame.content))
              => Lines(CallOutput) = <<d>>
       /\ (frame.ip = "L136" /\ NoEndl(frame.recipient) /\ NoEndl(frame.content))
              => Lines(CallOutput) = <<d, l>>

C1_Witness ==
    /\ frame.ip = "L136"
    /\ frame.self = "service2"
    /\ frame.recipient = "Dear, Bob"
    /\ frame.content = "Dear, you"
    /\ Len(Lines(CallOutput)) = 2

-----------------------------------------------------------------------------
(* C2: formatMessage(r, c) returns exactly "Dear " + r + ", " + c for every
   pair of texts, the empty text and texts holding "Dear" or commas among
   them: the result is the five characters "Dear ", then r, then the two
   characters ", ", then c, and nothing else.  The call writes nothing and
   changes no object. *)
C2_FormatMessage ==
    last.op = "formatMessage" =>
        LET r == last.arg1
            c == last.arg2
            m == last.ret
        IN /\ Len(m) = 5 + Len(r) + 2 + Len(c)
           /\ SubSeq(m, 1, 5) = "Dear "
           /\ SubSeq(m, 6, 5 + Len(r)) = r
           /\ SubSeq(m, 6 + Len(r), 7 + Len(r)) = ", "
           /\ SubSeq(m, 8 + Len(r), Len(m)) = c
           /\ LastOutput = ""
           /\ heap = UnitHeap
           /\ freed = {}

C2_Witness ==
    /\ last.op = "formatMessage"
    /\ last.arg1 = "Dear, Bob"
    /\ last.arg2 = ""
    /\ last.ret = "Dear Dear, Bob, "
    /\ completed = 2

-----------------------------------------------------------------------------
(* C3 as stated: send(m) on either notifier variant writes exactly one line,
   the variant's label followed by m, and leaves every logger as it was. *)
C3_AsStated ==
    last.op \in {"send", "notifyUser"} =>
        /\ Lines(LastOutput) = <<Label(last.type) \o last.arg1>>
        /\ heap = UnitHeap

(* C3 amended: send(m) on either notifier variant, called directly or
   through notifyUser, writes the variant's label, m and one line break,
   nothing else, which is exactly one line whenever m holds no line break;
   no object is created, changed or deleted, so no logger changes, and
   nothing of a logger's is written. *)
C3_SendOneLine ==
    last.op \in {"send", "notifyUser"} =>
        /\ last.type \in NotifierTypes
        /\ LastOutput = Label(last.type) \o last.arg1 \o Endl
        /\ NoEndl(last.arg1) => Lines(LastOutput) = <<Label(last.type) \o last.arg1>>
        /\ heap = UnitHeap
        /\ freed = {}

C3_Witness ==
    /\ last.op = "notifyUser"
    /\ last.type = "SMSNotifier"
    /\ last.arg1 = "Dear, you"
    /\ Lines(LastOutput) = <<"Sending SMS: Dear, you">>
    /\ completed = 2

-----------------------------------------------------------------------------
(* C4 as stated: log(i) on a ConsoleLogger writes exactly one line,
   "Logging: " followed by i. *)
C4_AsStated ==
    last.op = "log" => Lines(LastOutput) = <<"Logging: " \o last.arg1>>

(* C4 amended: log(i) on a ConsoleLogger writes "Logging: ", i and one line
   break, nothing else, which is exactly one line whenever i holds no line
   break. *)
C4_LogOneLine ==
    last.op = "log" =>
        /\ LastOutput = "Logging: " \o last.arg1 \o Endl
        /\ NoEndl(last.arg1) => Lines(LastOutput) = <<"Logging: " \o last.arg1>>

C4_Witness ==
    /\ last.op = "log"
    /\ last.type = "ConsoleLogger"
    /\ last.arg1 = ""
    /\ Lines(LastOutput) = <<"Logging: ">>
    /\ completed = 2

-----------------------------------------------------------------------------
(* The four lines main is to write *)
MainLines ==
    <<"Sending Email: Dear John, Your order has been shipped!",
      "Logging: Notification sent to John",
      "Sending SMS: Dear Alice, Your appointment is confirmed!",
      "Logging: Notification sent to Alice">>

(* C5: with the literals of main, the run writes exactly the four lines
   MainLines in this order; at every moment what is written is an initial part
   of them, so both lines of scenario A come before either line of
   scenario B. *)
C5_MainOutput ==
    call = MainCalls =>
        /\ Len(Lines(out)) <= 4
        /\ Lines(out) = SubSeq(MainLines, 1, Len(Lines(out)))
        /\ CountEndl(out) = Len(Lines(out))
        /\ (out # "" => SubSeq(out, Len(out), Len(out)) = Endl)
        /\ completed = 0 => Len(Lines(out)) <= 2
        /\ completed = 1 => Len(Lines(out)) >= 2
        /\ completed = 2 => Len(Lines(out)) = 4
        /\ pc \in {"L153", "~service2", "~smsNotifier", "~service", "~consoleLogger",
                   "~emailNotifier", "done"} => Lines(out) = MainLines

C5_Witness ==
    /\ call = MainCalls
    /\ pc = "done"
    /\ Lines(out) = MainLines

-----------------------------------------------------------------------------
(* The output of the first call (Email service) and of the second (SMS
   service), once the second has written its lines *)
EmailRun == SubSeq(out, 1, frame.out0)
SMSRun == Written(out, frame.out0)

(* s without the label it starts with *)
Unlabelled(s, label) == SubSeq(s, Len(label) + 1, Len(s))

(* C6: when both calls of main carry the same recipient and content, the
   output of the Email service and the output of the SMS service are the
   labels "Sending Email: " and "Sending SMS: " followed by one and the same
   text; so the message dispatched, the logger's line and the number and
   order of the lines agree. *)
C6_Substitutable ==
    (frame.self = "service2" /\ frame.ip \in {"L136", "returned"} /\ call[1] = call[2]) =>
        /\ SubSeq(EmailRun, 1, Len("Sending Email: ")) = "Sending Email: "
        /\ SubSeq(SMSRun, 1, Len("Sending SMS: ")) = "Sending SMS: "
        /\ Unlabelled(EmailRun, "Sending Email: ") = Unlabelled(SMSRun, "Sending SMS: ")
        /\ Len(Lines(EmailRun)) = Len(Lines(SMSRun))
        /\ Len(Lines(EmailRun)) >= 2
        /\ \A i \in 2..Len(Lines(EmailRun)) : Lines(EmailRun)[i] = Lines(SMSRun)[i]
        /\ Unlabelled(Lines(EmailRun)[1], "Sending Email: ")
               = Unlabelled(Lines(SMSRun)[1], "Sending SMS: ")

C6_Witness ==
    /\ frame.self = "service2"
    /\ frame.ip = "returned"
    /\ call[1] = call[2]
    /\ call[1].recipient = "Alice"
    /\ call[1].content = "Your order has been shipped!"
    /\ EmailRun # SMSRun

-----------------------------------------------------------------------------
(* The pointers service s holds *)
Owned(s) == {services[s].notifier, services[s].logger}

(* main's position is in the destructors that run after return 0 *)
LeavingScope ==
    pc \in {"~service2", "~smsNotifier", "~service", "~consoleLogger",
            "~emailNotifier", "done"}

-----------------------------------------------------------------------------
(* C7: whenever a NotificationService exists, its notifier points to a live
   notifier object and its logger to a live logger object; sendNotification
   runs only on such a service, and the process is never killed for
   dereferencing an absent dependency. *)
C7_DependenciesPresent ==
    /\ \A s \in ServiceNames :
           services[s].live =>
               /\ Valid(services[s].notifier)
               /\ heap[services[s].notifier] \in NotifierTypes
               /\ Valid(services[s].logger)
               /\ heap[services[s].logger] \in LoggerTypes
    /\ frame.ip \in {"L131", "L133", "L135", "L136"} => services[frame.self].live
    /\ pc # "crashed"

C7_Witness ==
    /\ services["service"].live
    /\ services["service2"].live
    /\ frame.self = "service2"
    /\ frame.ip = "L133"

-----------------------------------------------------------------------------
(* No pointer is held twice; a live service keeps its pair *)
ExclusiveOwnership ==
    /\ \A s \in ServiceNames :
           services[s].live =>
               /\ NULL \notin Owned(s)
               /\ Cardinality(Owned(s)) = 2
               /\ \A h \in Handles : locals[h] \notin Owned(s)
    /\ (services["service"].live /\ services["service2"].live)
           => Cardinality(Owned("service") \cup Owned("service2")) = 4

FixedPair ==
    \A s \in ServiceNames :
        services[s].live =>
            \/ services'[s] = services[s]
            \/ /\ pc = "~" \o s
               /\ ~services'[s].live

(* C8: a service holds two different objects, no object is held by both
   services or by a service and a local handle of main, so the two services
   of main hold four pairwise distinct objects; and a service's pair stays
   as constructed in every step until the service goes out of scope. *)
C8_ExclusiveFixedOwnership == [](ExclusiveOwnership) /\ [][FixedPair]_vars

C8_Witness ==
    /\ services["service"].live
    /\ services["service2"].live
    /\ Owned("service") \cap Owned("service2") = {}
    /\ completed = 2

-----------------------------------------------------------------------------
(* C9: every run of main reaches its end with exit code 0, after both calls
   of sendNotification; the process is never killed and no other exit code
   is ever set. *)
C9_TerminatesWithZero ==
    /\ <>(pc = "done" /\ exitCode = 0 /\ completed = 2)
    /\ [](pc # "crashed" /\ exitCode \in {NoExit, 0})
    /\ [](exitCode = 0 => completed = 2)

C9_Witness ==
    /\ pc = "done"
    /\ exitCode = 0
    /\ completed = 2
    /\ frame.ip = "returned"

-----------------------------------------------------------------------------
(* C10: a handle main has moved from is empty and is never read again; the
   object it held is then held by the service alone and stays alive while
   that service is in scope; objects are deleted only in the destructors at
   the end of main, after both calls of sendNotification have returned. *)
C10_NoUseAfterMove ==
    /\ \A h \in moved : locals[h] = NULL
    /\ ~usedAfterMove
    /\ pc \in {"L146", "L146.call", "L149", "L150"}
           => {"emailNotifier", "consoleLogger"} \subseteq moved
    /\ (pc \in {"L151", "L151.call", "L153"} \/ LeavingScope) => moved = Handles
    /\ \A s \in ServiceNames :
           services[s].live => Owned(s) \subseteq DOMAIN heap
    /\ freed # {} => (LeavingScope /\ pc # "~service2" /\ completed = 2)
    /\ pc # "crashed"

C10_Witness ==
    /\ pc = "~service"
    /\ moved = Handles
    /\ freed # {}
    /\ services["service"].live
    /\ Owned("service") \subseteq DOMAIN heap

====
